---- MODULE Spec2Model ----
(***************************************************************************)
(* Data Structure Saver (src/src/app/page.tsx): the array trimmer and the  *)
(* JSON Schema inferrer with its schema merger.                            *)
(*                                                                         *)
(* JSON values are records tagged by k; an object is the ordered sequence  *)
(* of its own [key, val] entries.  A number is kept as twice its value     *)
(* (half = 2 is 1, half = 3 is 1.5), so Number.isInteger is a computation. *)
(***************************************************************************)
EXTENDS Integers, Sequences, FiniteSets, TLC

VARIABLES
  input,          \* useState: the text of the input area, as its tokens
  arrayLimit,     \* useState: the text of the limit field, as its characters
  output,         \* useState: the text shown as the result, as its tokens
  outputValue,    \* useState: the trimmed value or the schema handed to the tree view
  error,          \* useState: null or the message shown
  copyLabel,      \* useState: "Copy" or "Copied"
  collapsedPaths, \* useState: the paths folded in the tree view
  outputMode,     \* useState: "trim" or "schema"
  writes,         \* handleCopyOutput: writeText promises not settled yet
  pc,             \* position in the sequence of calls followed
  acc,            \* mergeSchemas: first argument (the reduce accumulator)
  itemSchema,     \* mergeSchemas: second argument
  mergedOut,      \* mergeSchemas: the value returned
  folds           \* number of reduce steps taken after the first merge

home == <<input, arrayLimit, output, outputValue, error, copyLabel, collapsedPaths, outputMode>>
merging == <<acc, itemSchema, mergedOut, folds>>
vars == <<home, writes, pc, merging>>

(***************************************************************************)
(* Bounds of the checked instances.                                        *)
(***************************************************************************)
MaxLen == 2      \* longest array in the trimmer inputs built from TrimLeaves
MaxLimit == 3    \* largest array limit tried
MaxItems == 3    \* longest array in an inferrer input
MaxFolds == 2    \* reduce steps taken after a first merge

(***************************************************************************)
(* The value model (type JsonValue).                                       *)
(***************************************************************************)
\* null, the JSON value and the JavaScript value alike
JNull == [k |-> "null"]
JBool(b) == [k |-> "boolean", b |-> b]
JNum(half) == [k |-> "number", half |-> half]
JStr(s) == [k |-> "string", s |-> s]
JArr(items) == [k |-> "array", items |-> items]
JObj(entries) == [k |-> "object", entries |-> entries]

\* undefined, which is no JSON value
JSUndefined == [k |-> "undefined"]

IsArray(value) == value.k = "array"
IsObject(value) == value.k = "object"
IsScalar(value) == value.k \in {"null", "boolean", "number", "string"}

Min(a, b) == IF a < b THEN a ELSE b
Max(a, b) == IF a > b THEN a ELSE b

Keys(entries) == [i \in 1..Len(entries) |-> entries[i].key]
KeySet(entries) == {entries[i].key : i \in 1..Len(entries)}

\* The number Infinity, which is no JSON value and no integer.
Infinity == [k |-> "number", infinite |-> TRUE]
IsInfinite(value) == "infinite" \in DOMAIN value

\* The integer a finite whole number stands for.
NumberOf(value) == value.half \div 2

\* A one-based slip: slice(1, end + 1) skips the first element.
SliceOneBased(items, end) ==
  SubSeq(items, 2, Min(NumberOf(end) + 1, Len(items)))

\* An inclusive end: slice(0, end + 1) keeps one element too many.
SliceInclusive(items, end) ==
  SubSeq(items, 1, Min(NumberOf(end) + 1, Len(items)))

\* Array.prototype.slice(0, end) for a whole number or Infinity: a negative
\* end counts from the back, Infinity is clamped to the length.
Slice(items, end) ==
  LET len == Len(items)
      final == IF IsInfinite(end) THEN len
               ELSE IF NumberOf(end) < 0 THEN Max(len + NumberOf(end), 0)
               ELSE Min(NumberOf(end), len)
  IN SubSeq(items, 1, final)

\* Position of key among the own entries, 0 when it is not an own key.
IndexOfKey(entries, key) ==
  IF \E i \in 1..Len(entries) : entries[i].key = key
    THEN CHOOSE i \in 1..Len(entries) : entries[i].key = key
    ELSE 0

\* CreateDataProperty: define an own property whatever its name is; a new
\* key goes last, a known key keeps its place.
DefineOwn(entries, key, val) ==
  LET i == IndexOfKey(entries, key)
  IN IF i = 0 THEN Append(entries, [key |-> key, val |-> val])
     ELSE [entries EXCEPT ![i] = [key |-> key, val |-> val]]

\* Building the object with target[key] = val instead: "__proto__" then goes
\* to the prototype setter and is no own key of the result.
RECURSIVE FromEntriesByAssignment(_)
FromEntriesByAssignment(pairs) ==
  IF Len(pairs) = 0 THEN <<>>
  ELSE LET last == pairs[Len(pairs)]
           before == FromEntriesByAssignment(SubSeq(pairs, 1, Len(pairs) - 1))
       IN IF last.key = "__proto__" THEN before
          ELSE DefineOwn(before, last.key, last.val)

\* Object.fromEntries(pairs)
RECURSIVE FromEntries(_)
FromEntries(pairs) ==
  IF Len(pairs) = 0 THEN <<>>
  ELSE LET last == pairs[Len(pairs)]
       IN DefineOwn(FromEntries(SubSeq(pairs, 1, Len(pairs) - 1)), last.key, last.val)

(***************************************************************************)
(* trimStructure                                                           *)
(***************************************************************************)
RECURSIVE trimStructure(_, _)
trimStructure(value, maxArrayLen) ==
  IF IsArray(value) THEN
    LET kept == Slice(value.items, maxArrayLen)
    IN JArr([i \in 1..Len(kept) |-> trimStructure(kept[i], maxArrayLen)])
  ELSE IF IsObject(value) THEN
    LET entries == [i \in 1..Len(value.entries) |->
                      [key |-> value.entries[i].key,
                       val |-> trimStructure(value.entries[i].val, maxArrayLen)]]
    IN JObj(FromEntries(entries))
  ELSE value

(***************************************************************************)
(* JSON.stringify(value, null, 2), as the sequence of its tokens (white    *)
(* space left out).  A property whose value is undefined is left out, an   *)
(* undefined array element is written null.                                *)
(***************************************************************************)
DigitText == <<"0", "1", "2", "3", "4", "5", "6", "7", "8", "9">>

RECURSIVE IntegerText(_)
IntegerText(n) ==
  IF n < 10 THEN <<DigitText[n + 1]>>
  ELSE IntegerText(n \div 10) \o <<DigitText[(n % 10) + 1]>>

\* String(value) of a number kept as twice its value
NumberText(half) ==
  IF half % 2 = 0 THEN IntegerText(half \div 2)
  ELSE IntegerText(half \div 2) \o <<".", "5">>

RECURSIVE Stringify(_)

RECURSIVE StringifyItems(_)
StringifyItems(items) ==
  IF Len(items) = 0 THEN <<>>
  ELSE LET last == items[Len(items)]
           text == IF last = JSUndefined THEN <<"null">> ELSE Stringify(last)
       IN IF Len(items) = 1 THEN text
          ELSE StringifyItems(SubSeq(items, 1, Len(items) - 1)) \o <<",">> \o text

RECURSIVE StringifyEntries(_)
StringifyEntries(entries) ==
  IF Len(entries) = 0 THEN <<>>
  ELSE LET last == entries[Len(entries)]
           before == StringifyEntries(SubSeq(entries, 1, Len(entries) - 1))
       IN IF last.val = JSUndefined THEN before
          ELSE (IF Len(before) = 0 THEN <<>> ELSE before \o <<",">>)
                 \o <<"\"", last.key, "\"", ":">> \o Stringify(last.val)

Stringify(value) ==
  IF value.k = "null" THEN <<"null">>
  ELSE IF value.k = "boolean" THEN <<IF value.b THEN "true" ELSE "false">>
  ELSE IF value.k = "number" THEN NumberText(value.half)
  ELSE IF value.k = "string" THEN <<"\"", value.s, "\"">>
  ELSE IF IsArray(value) THEN <<"[">> \o StringifyItems(value.items) \o <<"]">>
  ELSE <<"{">> \o StringifyEntries(value.entries) \o <<"}">>

(***************************************************************************)
(* JSON.parse(text), reading the tokens from left to right.  A step gives  *)
(* the value read and the position after it, or the SyntaxError thrown.    *)
(* Keys that are array indices (which an object lists first) and negative  *)
(* numbers are not among the texts read here.                              *)
(***************************************************************************)
Parsed(value, next) == [ok |-> TRUE, value |-> value, next |-> next, message |-> ""]
SyntaxError(tokens, at) ==
  [ok |-> FALSE, value |-> JSUndefined, next |-> at,
   message |-> IF at > Len(tokens) THEN "Unexpected end of JSON input"
               ELSE "Unexpected token"]

IsDigit(c) == \E d \in 1..10 : DigitText[d] = c
DigitValue(c) == (CHOOSE d \in 1..10 : DigitText[d] = c) - 1

\* Position after the run of digits that starts at position at.
DigitsEnd(tokens, at) ==
  LET stops == {j \in at..Len(tokens) : ~IsDigit(tokens[j])}
  IN IF stops = {} THEN Max(at, Len(tokens) + 1)
     ELSE CHOOSE first \in stops : \A j \in stops : first <= j

\* The number the digits tokens[from .. to - 1] write.
RECURSIVE DigitsValue(_, _, _)
DigitsValue(tokens, from, to) ==
  IF to <= from THEN 0
  ELSE 10 * DigitsValue(tokens, from, to - 1) + DigitValue(tokens[to - 1])

ParseNumber(tokens, at) ==
  LET end == DigitsEnd(tokens, at)
      whole == DigitsValue(tokens, at, end)
  IN IF tokens[at] = "0" /\ end > at + 1 THEN SyntaxError(tokens, at + 1)
     ELSE IF end <= Len(tokens) /\ tokens[end] = "."
       THEN IF end + 1 <= Len(tokens) /\ tokens[end + 1] = "5"
              THEN Parsed(JNum(2 * whole + 1), end + 2)
              ELSE SyntaxError(tokens, end + 1)
       ELSE Parsed(JNum(2 * whole), end)

RECURSIVE ParseValue(_, _)

\* The elements after "[" or a comma, up to the closing bracket.
RECURSIVE ParseItems(_, _, _)
ParseItems(tokens, at, items) ==
  LET item == ParseValue(tokens, at)
  IN IF ~item.ok THEN item
     ELSE IF item.next > Len(tokens) THEN SyntaxError(tokens, item.next)
     ELSE IF tokens[item.next] = ","
       THEN ParseItems(tokens, item.next + 1, Append(items, item.value))
     ELSE IF tokens[item.next] = "]"
       THEN Parsed(JArr(Append(items, item.value)), item.next + 1)
     ELSE SyntaxError(tokens, item.next)

\* The members after "{" or a comma, up to the closing brace; a key met
\* again replaces the value and keeps its place.
RECURSIVE ParseEntries(_, _, _)
ParseEntries(tokens, at, entries) ==
  IF at + 3 > Len(tokens) THEN SyntaxError(tokens, Len(tokens) + 1)
  ELSE IF tokens[at] # "\"" THEN SyntaxError(tokens, at)
  ELSE IF tokens[at + 2] # "\"" THEN SyntaxError(tokens, at + 2)
  ELSE IF tokens[at + 3] # ":" THEN SyntaxError(tokens, at + 3)
  ELSE
    LET member == ParseValue(tokens, at + 4)
        defined == DefineOwn(entries, tokens[at + 1], member.value)
    IN IF ~member.ok THEN member
       ELSE IF member.next > Len(tokens) THEN SyntaxError(tokens, member.next)
       ELSE IF tokens[member.next] = ","
         THEN ParseEntries(tokens, member.next + 1, defined)
       ELSE IF tokens[member.next] = "}"
         THEN Parsed(JObj(defined), member.next + 1)
       ELSE SyntaxError(tokens, member.next)

ParseValue(tokens, at) ==
  IF at > Len(tokens) THEN SyntaxError(tokens, at)
  ELSE IF tokens[at] = "null" THEN Parsed(JNull, at + 1)
  ELSE IF tokens[at] = "true" THEN Parsed(JBool(TRUE), at + 1)
  ELSE IF tokens[at] = "false" THEN Parsed(JBool(FALSE), at + 1)
  ELSE IF IsDigit(tokens[at]) THEN ParseNumber(tokens, at)
  ELSE IF tokens[at] = "\"" THEN
    IF at + 2 <= Len(tokens) /\ tokens[at + 2] = "\""
      THEN Parsed(JStr(tokens[at + 1]), at + 3)
      ELSE SyntaxError(tokens, Len(tokens) + 1)
  ELSE IF tokens[at] = "[" THEN
    IF at + 1 <= Len(tokens) /\ tokens[at + 1] = "]"
      THEN Parsed(JArr(<<>>), at + 2)
      ELSE ParseItems(tokens, at + 1, <<>>)
  ELSE IF tokens[at] = "{" THEN
    IF at + 1 <= Len(tokens) /\ tokens[at + 1] = "}"
      THEN Parsed(JObj(<<>>), at + 2)
      ELSE ParseEntries(tokens, at + 1, <<>>)
  ELSE SyntaxError(tokens, at)

JSONparse(tokens) ==
  LET read == ParseValue(tokens, 1)
  IN IF read.ok /\ read.next <= Len(tokens) THEN SyntaxError(tokens, read.next)
     ELSE read

(***************************************************************************)
(* Number.parseInt(text, 10): leading white space is skipped, a sign is    *)
(* read, then the longest run of digits; no digit gives NaN.  The result   *)
(* is a double: a run of more than MaxFiniteDigits digits is beyond the    *)
(* largest finite one and gives Infinity.  Runs too long for an exact      *)
(* result and not yet infinite are not among the texts read here.          *)
(***************************************************************************)
\* Digits of the largest finite double, 1.7976931348623157e308
MaxFiniteDigits == 309

RECURSIVE SkipSpaces(_, _)
SkipSpaces(text, at) ==
  IF at <= Len(text) /\ text[at] = " " THEN SkipSpaces(text, at + 1) ELSE at

parseInt(text) ==
  LET start == SkipSpaces(text, 1)
      signed == start <= Len(text) /\ text[start] \in {"-", "+"}
      from == IF signed THEN start + 1 ELSE start
      to == DigitsEnd(text, from)
      size == IF to - from > MaxFiniteDigits THEN 0 ELSE DigitsValue(text, from, to)
      negative == signed /\ text[start] = "-"
  IN IF to = from THEN [nan |-> TRUE, infinite |-> FALSE, negative |-> FALSE, n |-> 0]
     ELSE IF to - from > MaxFiniteDigits
       THEN [nan |-> FALSE, infinite |-> TRUE, negative |-> negative, n |-> 0]
     ELSE [nan |-> FALSE, infinite |-> FALSE, negative |-> negative,
           n |-> IF negative THEN 0 - size ELSE size]

(***************************************************************************)
(* Bounded sets of JSON values.                                            *)
(***************************************************************************)
ArraysOver(V, n) == UNION {{JArr(f) : f \in [1..m -> V]} : m \in 0..n}

ObjectsOver(keyLists, V) ==
  UNION {{JObj([i \in 1..Len(ks) |-> [key |-> ks[i], val |-> f[i]]]) :
            f \in [1..Len(ks) -> V]} : ks \in keyLists}

\* Key lists of the objects in trimmer inputs, in JSON.parse's order.
TrimKeyLists == {<<>>, <<"a">>, <<"b", "a">>, <<"__proto__">>}

TrimLeaves == {JNum(2), JStr("x")}
TrimInner == TrimLeaves \cup ArraysOver(TrimLeaves, MaxLen)
               \cup ObjectsOver(TrimKeyLists, TrimLeaves)
TrimDocs == TrimInner \cup ArraysOver(TrimInner, MaxLen)
              \cup ObjectsOver(TrimKeyLists, TrimInner)

(***************************************************************************)
(* The page (function Home): its state, the limit derived from it, and     *)
(* handleTrim.                                                             *)
(***************************************************************************)
Member(key, val) == [key |-> key, val |-> val]

\* DEFAULT_INPUT, the text the input area starts with
DEFAULT_INPUT ==
  Stringify(JObj(<<
    Member("meta", JObj(<<Member("source", JStr("example")), Member("count", JNum(6))>>)),
    Member("users", JArr(<<
      JObj(<<Member("id", JNum(2)), Member("name", JStr("Ada")),
             Member("roles", JArr(<<JStr("admin"), JStr("editor")>>))>>),
      JObj(<<Member("id", JNum(4)), Member("name", JStr("Max")),
             Member("roles", JArr(<<JStr("viewer")>>))>>)>>)),
    Member("events", JArr(<<
      JObj(<<Member("type", JStr("click")),
             Member("tags", JArr(<<JStr("nav"), JStr("cta"), JStr("primary")>>))>>),
      JObj(<<Member("type", JStr("scroll")),
             Member("tags", JArr(<<JStr("hero"), JStr("story")>>))>>)>>))>>))

\* The message of the error caught left out.
MessageWithoutText(prefix, text) == [k |-> "string", prefix |-> prefix, text |-> ""]

\* A message shown in the error box: a fixed text, or a prefix and the
\* message of the error caught.
Message(prefix, text) == [k |-> "string", prefix |-> prefix, text |-> text]

\* const parsedLimit = useMemo(...): null, or the limit as a number
parsedLimit ==
  LET read == parseInt(arrayLimit)
  IN IF read.nan THEN JNull
     ELSE IF read.infinite THEN (IF read.negative THEN JNum(0) ELSE Infinity)
     ELSE JNum(2 * Max(read.n, 0))

\* const parsed = JSON.parse(input), where it does not throw
parsed == JSONparse(input).value

\* The state after the first render.
InitHome ==
  /\ input = DEFAULT_INPUT
  /\ arrayLimit = <<"1">>
  /\ output = <<>>
  /\ outputValue = JNull
  /\ error = JNull
  /\ copyLabel = "Copy"
  /\ collapsedPaths = {}
  /\ outputMode = "trim"
  /\ writes = 0

handleTrim ==
  IF parsedLimit = JNull THEN
    /\ error' = Message("Provide a valid number of items for arrays.", "")
    /\ output' = <<>>
    /\ outputValue' = JNull
    /\ UNCHANGED <<input, arrayLimit, copyLabel, collapsedPaths, outputMode>>
  ELSE IF JSONparse(input).ok THEN
    LET trimmed == trimStructure(parsed, parsedLimit)
    IN /\ output' = Stringify(trimmed)
       /\ outputValue' = trimmed
       /\ collapsedPaths' = {}
       /\ outputMode' = "trim"
       /\ error' = JNull
       /\ UNCHANGED <<input, arrayLimit, copyLabel>>
  ELSE
    /\ error' = Message("JSON error: ", JSONparse(input).message)
    /\ output' = <<>>
    /\ outputValue' = JNull
    /\ UNCHANGED <<input, arrayLimit, copyLabel, collapsedPaths, outputMode>>

(***************************************************************************)
(* The trimmer followed: a text and a limit are entered, Trim is pressed,  *)
(* the text shown is entered as the input, and Trim is pressed again.      *)
(***************************************************************************)
\* Texts JSON.parse rejects.
MalformedTexts == {<<>>, <<"{">>, <<"[", "1", ",", "]">>, <<"[", "]", "]">>, <<"nul">>}

TrimTexts == {Stringify(value) : value \in TrimDocs} \cup {DEFAULT_INPUT} \cup MalformedTexts

LimitTexts ==
  {IntegerText(n) : n \in 0..MaxLimit}
    \cup {<<>>, <<"x">>, <<"-", "1">>, <<" ", "2">>, <<"1", ".", "5">>, <<"2", "x">>}

InitTrim ==
  /\ InitHome
  /\ pc = "start"
  /\ acc = JNull /\ itemSchema = JNull /\ mergedOut = JSUndefined /\ folds = 0

\* onChange of the input area and of the limit field: setInput(text),
\* setArrayLimit(text)
Enter ==
  /\ pc = "start"
  /\ \E text \in TrimTexts, limit \in LimitTexts :
       /\ input' = text
       /\ arrayLimit' = limit
  /\ pc' = "entered"
  /\ UNCHANGED <<output, outputValue, error, copyLabel, collapsedPaths, outputMode, writes, merging>>

\* onClick of the Trim button
Trim ==
  /\ pc \in {"entered", "pasted"}
  /\ handleTrim
  /\ pc' = IF pc = "entered" THEN "trimmed" ELSE "retrimmed"
  /\ UNCHANGED <<writes, merging>>

\* onChange of the input area with the text shown as the result
Paste ==
  /\ pc = "trimmed"
  /\ input' = output
  /\ pc' = "pasted"
  /\ UNCHANGED <<arrayLimit, output, outputValue, error, copyLabel, collapsedPaths,
                 outputMode, writes, merging>>

NextTrim == Enter \/ Trim \/ Paste

SpecTrim == InitTrim /\ [][NextTrim]_vars

(***************************************************************************)
(* The schema model (type JsonSchema).  A schema is a record of its five   *)
(* possible own properties; each says whether it is there:                 *)
(*   type        absent, one tag ("scalar"), or an array of tags ("list")  *)
(*   properties  absent, or the ordered own entries [key, val] of the map  *)
(*   items       absent, or a schema                                       *)
(*   required    absent, there with the value undefined, or a list         *)
(*   dollarSchema ($schema)  absent, or the identifier                     *)
(* The order of these properties inside one schema object is not kept.     *)
(***************************************************************************)
Absent == [has |-> FALSE]
Present(x) == [has |-> TRUE, v |-> x]

TypeAbsent == [form |-> "absent", tags |-> <<>>]
TypeOne(tag) == [form |-> "scalar", tags |-> <<tag>>]
TypeList(tags) == [form |-> "list", tags |-> tags]

RequiredAbsent == [form |-> "absent", names |-> <<>>]
RequiredUndefined == [form |-> "undefined", names |-> <<>>]
RequiredList(names) == [form |-> "list", names |-> names]

\* The object literal {}
EmptySchema ==
  [type |-> TypeAbsent, properties |-> Absent, items |-> Absent,
   required |-> RequiredAbsent, dollarSchema |-> Absent]

DraftId == "https://json-schema.org/draft/2020-12/schema"

\* Object.prototype.constructor, what target["constructor"] reads on an
\* object that has no such own key: a function, with none of a schema's
\* properties.
NativeObject == [k |-> "function"]

\* Names every plain object inherits from Object.prototype.
ObjectPrototypeNames ==
  {"constructor", "__proto__", "toString", "valueOf", "hasOwnProperty"}

IsSchemaObject(x) == "type" \in DOMAIN x
Truthy(x) == x # JNull /\ x # JSUndefined
Coalesce(x, default) == IF Truthy(x) THEN x ELSE default

Range(seq) == {seq[i] : i \in 1..Len(seq)}

\* The spread without the Set: duplicates stay.
DedupeNot(seq) == seq

\* Array.from(new Set(seq)): the first occurrence of each member, in order.
RECURSIVE Dedupe(_)
Dedupe(seq) ==
  IF Len(seq) = 0 THEN <<>>
  ELSE LET before == Dedupe(SubSeq(seq, 1, Len(seq) - 1))
           last == seq[Len(seq)]
       IN IF last \in Range(before) THEN before ELSE Append(before, last)

\* target[key] = val on a plain object: "__proto__" reaches the prototype
\* setter, which replaces the prototype and defines no own property (the
\* prototype is not kept: with the keys modelled nothing reads through it).
Assign(entries, key, val) ==
  IF key = "__proto__" THEN entries ELSE DefineOwn(entries, key, val)

\* target[key]: the own property, else what Object.prototype gives.
Lookup(entries, key) ==
  IF IndexOfKey(entries, key) > 0 THEN entries[IndexOfKey(entries, key)].val
  ELSE IF key \in ObjectPrototypeNames THEN NativeObject
  ELSE JSUndefined

\* schema.properties ?? {}
PropertiesOf(schema) ==
  IF IsSchemaObject(schema) /\ schema.properties.has THEN schema.properties.v ELSE <<>>

\* schema.required ?? []
RequiredOf(schema) ==
  IF IsSchemaObject(schema) /\ schema.required.form = "list"
    THEN schema.required.names ELSE <<>>

\* schema.items ?? null
ItemsOf(schema) ==
  IF IsSchemaObject(schema) /\ schema.items.has THEN schema.items.v ELSE JNull

(***************************************************************************)
(* normalizeTypes                                                          *)
(***************************************************************************)
normalizeTypes(schema) ==
  IF ~Truthy(schema) \/ ~IsSchemaObject(schema) THEN <<>>
  ELSE IF schema.type.form = "absent" THEN <<>>
  ELSE schema.type.tags

\* merged.type = types.length === 1 ? types[0] : types
TypeField(types) ==
  IF Len(types) = 0 THEN TypeAbsent
  ELSE IF Len(types) = 1 THEN TypeOne(types[1])
  ELSE TypeList(types)

(***************************************************************************)
(* mergeSchemas                                                            *)
(***************************************************************************)
RECURSIVE mergeSchemas(_, _)

\* The left side's required names kept whatever the right side requires.
RequiredOfLeft(leftRequired, rightRequired) == leftRequired

\* leftRequired.filter((key) => rightRequired.has(key))
RequiredInBoth(leftRequired, rightRequired) ==
  SelectSeq(leftRequired, LAMBDA key : key \in rightRequired)

\* The left side's properties kept, the right side's left out.
MergePropertiesOfLeft(keys, leftProps, rightProps) == leftProps

\* keys.forEach((key) => { properties[key] = mergeSchemas(...) })
RECURSIVE MergeProperties(_, _, _)
MergeProperties(keys, leftProps, rightProps) ==
  IF Len(keys) = 0 THEN <<>>
  ELSE LET key == keys[Len(keys)]
       IN Assign(MergeProperties(SubSeq(keys, 1, Len(keys) - 1), leftProps, rightProps),
                 key,
                 mergeSchemas(Coalesce(Lookup(leftProps, key), JNull),
                              Coalesce(Lookup(rightProps, key), JNull)))

mergeSchemas(left, right) ==
  IF ~Truthy(left) THEN Coalesce(right, EmptySchema)
  ELSE IF ~Truthy(right) THEN left
  ELSE
    LET types == Dedupe(normalizeTypes(left) \o normalizeTypes(right))
        leftIsObject == "object" \in Range(normalizeTypes(left))
        rightIsObject == "object" \in Range(normalizeTypes(right))
        leftProps == PropertiesOf(left)
        rightProps == PropertiesOf(right)
        keys == Dedupe(Keys(leftProps) \o Keys(rightProps))
        leftRequired == Dedupe(RequiredOf(left))
        rightRequired == Range(RequiredOf(right))
        required == RequiredInBoth(leftRequired, rightRequired)
        leftIsArray == "array" \in Range(normalizeTypes(left))
        rightIsArray == "array" \in Range(normalizeTypes(right))
    IN [type |-> TypeField(types),
        properties |->
          IF leftIsObject /\ rightIsObject
            THEN Present(MergeProperties(keys, leftProps, rightProps))
            ELSE Absent,
        required |->
          IF leftIsObject /\ rightIsObject /\ Len(required) > 0
            THEN RequiredList(required)
            ELSE RequiredAbsent,
        items |->
          IF leftIsArray /\ rightIsArray
            THEN Present(mergeSchemas(ItemsOf(left), ItemsOf(right)))
            ELSE Absent,
        dollarSchema |-> Absent]

(***************************************************************************)
(* inferSchema, generateSchema                                             *)
(***************************************************************************)
\* The test turned around.
IsIntegerInverted(value) == value.half % 2 # 0

\* Number.isInteger(value)
IsInteger(value) == value.half % 2 = 0

\* typeof value, for the values that reach the last line of inferSchema
TypeOf(value) == value.k

RECURSIVE inferSchema(_)

\* value.reduce((acc, item) => mergeSchemas(acc, inferSchema(item)), null)
RECURSIVE ReduceItems(_)
ReduceItems(items) ==
  IF Len(items) = 0 THEN JNull
  ELSE mergeSchemas(ReduceItems(SubSeq(items, 1, Len(items) - 1)),
                    inferSchema(items[Len(items)]))

\* Object.entries(value).forEach(([key, val]) => { properties[key] = inferSchema(val) })
RECURSIVE InferProperties(_)
InferProperties(entries) ==
  IF Len(entries) = 0 THEN <<>>
  ELSE LET last == entries[Len(entries)]
       IN Assign(InferProperties(SubSeq(entries, 1, Len(entries) - 1)),
                 last.key, inferSchema(last.val))

inferSchema(value) ==
  IF value.k = "null" THEN [EmptySchema EXCEPT !.type = TypeOne("null")]
  ELSE IF IsArray(value) THEN
    IF Len(value.items) = 0
      THEN [EmptySchema EXCEPT !.type = TypeOne("array"), !.items = Present(EmptySchema)]
      ELSE [EmptySchema EXCEPT !.type = TypeOne("array"),
                               !.items = Present(Coalesce(ReduceItems(value.items), EmptySchema))]
  ELSE IF IsObject(value) THEN
    LET properties == InferProperties(value.entries)
        required == Keys(properties)
    IN [EmptySchema EXCEPT !.type = TypeOne("object"),
                           !.properties = Present(properties),
                           !.required = IF Len(required) > 0 THEN RequiredList(required)
                                        ELSE RequiredUndefined]
  ELSE IF value.k = "number" THEN
    [EmptySchema EXCEPT !.type = TypeOne(IF IsInteger(value) THEN "integer" ELSE "number")]
  ELSE [EmptySchema EXCEPT !.type = TypeOne(TypeOf(value))]

generateSchema(value) ==
  [inferSchema(value) EXCEPT !.dollarSchema = Present(DraftId)]

(***************************************************************************)
(* A schema as the plain object it is (schema as JsonValue): its own       *)
(* properties in order, as Object.entries and JSON.stringify walk them.    *)
(***************************************************************************)
TagsValue(type) ==
  IF type.form = "scalar" THEN JStr(type.tags[1])
  ELSE JArr([i \in 1..Len(type.tags) |-> JStr(type.tags[i])])

RECURSIVE SchemaObject(_)
SchemaObject(schema) ==
  JObj(
    (IF schema.dollarSchema.has
       THEN <<[key |-> "$schema", val |-> JStr(schema.dollarSchema.v)]>> ELSE <<>>)
    \o (IF schema.type.form # "absent"
          THEN <<[key |-> "type", val |-> TagsValue(schema.type)]>> ELSE <<>>)
    \o (IF schema.properties.has
          THEN <<[key |-> "properties",
                  val |-> JObj([i \in 1..Len(schema.properties.v) |->
                                  [key |-> schema.properties.v[i].key,
                                   val |-> SchemaObject(schema.properties.v[i].val)]])]>>
          ELSE <<>>)
    \o (IF schema.required.form = "list"
          THEN <<[key |-> "required",
                  val |-> JArr([i \in 1..Len(schema.required.names) |->
                                  JStr(schema.required.names[i])])]>>
        ELSE IF schema.required.form = "undefined"
          THEN <<[key |-> "required", val |-> JSUndefined]>>
        ELSE <<>>)
    \o (IF schema.items.has
          THEN <<[key |-> "items", val |-> SchemaObject(schema.items.v)]>> ELSE <<>>))

(***************************************************************************)
(* Bounded sets of inferrer inputs.                                        *)
(***************************************************************************)
InferScalars == {JNull, JBool(TRUE), JBool(FALSE), JNum(2), JNum(3), JStr("x")}
InferLeaves == {JNull, JNum(2), JNum(3), JStr("x")}

\* Key lists of the objects in inferrer inputs, in JSON.parse's order.
InferKeyLists ==
  {<<>>, <<"a">>, <<"b">>, <<"a", "b">>, <<"b", "a">>,
   <<"constructor">>, <<"__proto__">>, <<"a", "__proto__">>}

InferPropertyValues ==
  {JNum(2), JStr("x"), JArr(<<JNum(2)>>), JObj(<<[key |-> "a", val |-> JNum(2)]>>)}

\* Elements of short arrays.
InferElements ==
  InferLeaves \cup ArraysOver(InferPropertyValues, 1)
    \cup ObjectsOver(InferKeyLists, InferPropertyValues)

\* Elements of the arrays of up to MaxItems elements.
InferCoreKeyLists == {<<>>, <<"a">>, <<"b">>, <<"a", "b">>, <<"__proto__">>}
InferCore ==
  {JNum(2), JNum(3), JStr("x")}
    \cup ArraysOver({JNum(2), JObj(<<[key |-> "a", val |-> JNum(2)]>>)}, 1)
    \cup ObjectsOver(InferCoreKeyLists, {JNum(2)})

InferDocs ==
  InferScalars \cup InferElements \cup ArraysOver(InferElements, 2)
    \cup ArraysOver(InferCore, MaxItems)

(***************************************************************************)
(* handleGenerateSchema, and the inferrer followed: a text is entered and  *)
(* Generate schema is pressed.                                             *)
(***************************************************************************)
handleGenerateSchema ==
  IF JSONparse(input).ok THEN
    LET schema == generateSchema(parsed)
    IN /\ output' = Stringify(SchemaObject(schema))
       /\ outputValue' = schema
       /\ collapsedPaths' = {}
       /\ outputMode' = "schema"
       /\ error' = JNull
       /\ UNCHANGED <<input, arrayLimit, copyLabel>>
  ELSE
    /\ error' = Message("JSON error: ", JSONparse(input).message)
    /\ output' = <<>>
    /\ outputValue' = JNull
    /\ UNCHANGED <<input, arrayLimit, copyLabel, collapsedPaths, outputMode>>

InferTexts == {Stringify(value) : value \in InferDocs} \cup {DEFAULT_INPUT} \cup MalformedTexts

InitInfer ==
  /\ InitHome
  /\ pc = "start"
  /\ acc = JNull /\ itemSchema = JNull /\ mergedOut = JSUndefined /\ folds = 0

\* onChange of the input area: setInput(text)
EnterDocument ==
  /\ pc = "start"
  /\ \E text \in InferTexts : input' = text
  /\ pc' = "entered"
  /\ UNCHANGED <<arrayLimit, output, outputValue, error, copyLabel, collapsedPaths,
                 outputMode, writes, merging>>

\* onClick of the Generate schema button
Generate ==
  /\ pc = "entered"
  /\ handleGenerateSchema
  /\ pc' = "generated"
  /\ UNCHANGED <<writes, merging>>

NextInfer == EnterDocument \/ Generate

SpecInfer == InitInfer /\ [][NextInfer]_vars

(***************************************************************************)
(* The merger followed: one mergeSchemas call on two schemas, then the     *)
(* reduce of inferSchema going on with further array elements.             *)
(***************************************************************************)
ElementSchemas == {inferSchema(value) : value \in InferElements}

CoreSchemas == {inferSchema(value) : value \in InferCore}

\* Schemas the reduce has built from two elements.
MergedSchemas == {mergeSchemas(a, b) : a, b \in CoreSchemas}

MergeArguments == {JNull, EmptySchema} \cup ElementSchemas \cup MergedSchemas

InitMerge ==
  /\ pc = "merge"
  /\ acc \in MergeArguments
  /\ itemSchema \in MergeArguments
  /\ mergedOut = JSUndefined
  /\ folds = 0
  /\ InitHome

\* mergeSchemas(acc, itemSchema)
Merge ==
  /\ pc = "merge"
  /\ mergedOut' = mergeSchemas(acc, itemSchema)
  /\ pc' = "merged"
  /\ UNCHANGED <<acc, itemSchema, folds, home, writes>>

\* inferSchema's reduce, lines 101-104: the next element's schema is merged
\* into the accumulated one.
Fold ==
  /\ pc = "merged"
  /\ folds < MaxFolds
  /\ \E next \in CoreSchemas :
       /\ acc' = mergedOut
       /\ itemSchema' = next
       /\ mergedOut' = mergeSchemas(mergedOut, next)
  /\ folds' = folds + 1
  /\ UNCHANGED <<pc, home, writes>>

NextMerge == Merge \/ Fold

SpecMerge == InitMerge /\ [][NextMerge]_vars

(***************************************************************************)
(* Nodes of a value by structural path.  A step is an array index          *)
(* (idx >= 1) or an object key (idx = 0).                                  *)
(***************************************************************************)
IndexStep(i) == [idx |-> i, key |-> ""]
KeyStep(key) == [idx |-> 0, key |-> key]

RECURSIVE Nodes(_)
Nodes(value) ==
  {[path |-> <<>>, node |-> value]} \cup
  (IF IsArray(value) THEN
     UNION {{[path |-> <<IndexStep(i)>> \o pn.path, node |-> pn.node] :
               pn \in Nodes(value.items[i])} : i \in 1..Len(value.items)}
   ELSE IF IsObject(value) THEN
     UNION {{[path |-> <<KeyStep(value.entries[i].key)>> \o pn.path, node |-> pn.node] :
               pn \in Nodes(value.entries[i].val)} : i \in 1..Len(value.entries)}
   ELSE {})

RECURSIVE At(_, _)
At(value, path) ==
  IF Len(path) = 0 THEN value
  ELSE LET step == Head(path)
       IN IF step.idx > 0 THEN
            IF IsArray(value) /\ step.idx <= Len(value.items)
              THEN At(value.items[step.idx], Tail(path))
              ELSE JSUndefined
          ELSE
            IF IsObject(value) /\ IndexOfKey(value.entries, step.key) > 0
              THEN At(value.entries[IndexOfKey(value.entries, step.key)].val, Tail(path))
              ELSE JSUndefined

Kind(x) == x.k

ArrayLengths(value) == {Len(pn.node.items) : pn \in {q \in Nodes(value) : IsArray(q.node)}}
MaxArrayLength(value) ==
  IF ArrayLengths(value) = {} THEN 0
  ELSE CHOOSE m \in ArrayLengths(value) : \A l \in ArrayLengths(value) : l <= m

\* The element kept at a position is the original's element at that position.
SameHead(kept, original) ==
  /\ kept.k = original.k
  /\ IsScalar(original) => kept = original

(***************************************************************************)
(* The other handlers of the page.                                         *)
(***************************************************************************)
handleFormatInput ==
  IF JSONparse(input).ok THEN
    /\ input' = Stringify(parsed)
    /\ error' = JNull
    /\ UNCHANGED <<arrayLimit, output, outputValue, copyLabel, collapsedPaths, outputMode>>
  ELSE
    /\ error' = Message("JSON error: ", JSONparse(input).message)
    /\ UNCHANGED <<input, arrayLimit, output, outputValue, copyLabel, collapsedPaths,
                   outputMode>>

\* toggleCollapsed(path)
toggleCollapsed(path) ==
  /\ collapsedPaths' = IF path \in collapsedPaths THEN collapsedPaths \ {path}
                       ELSE collapsedPaths \cup {path}
  /\ UNCHANGED <<input, arrayLimit, output, outputValue, error, copyLabel, outputMode>>

\* renderNode's path of a node: "$", then "[index]" for an element and
\* ".key" for a member, as its pieces.
RECURSIVE PathText(_)
PathText(path) ==
  IF Len(path) = 0 THEN <<"$">>
  ELSE LET step == path[Len(path)]
           before == PathText(SubSeq(path, 1, Len(path) - 1))
       IN IF step.idx > 0 THEN before \o <<"[">> \o IntegerText(step.idx - 1) \o <<"]">>
          ELSE before \o <<".", step.key>>

\* The value renderJson is given: a schema is the plain object it is.
Rendered == IF IsSchemaObject(outputValue) THEN SchemaObject(outputValue) ELSE outputValue

\* The paths that have a toggle button: the arrays and objects drawn, which
\* are those with no folded node above them.  (A value that is falsy is not
\* drawn at all; no array or object is.)
TogglePaths ==
  {PathText(pn.path) :
     pn \in {q \in Nodes(Rendered) :
               /\ IsArray(q.node) \/ IsObject(q.node)
               /\ \A m \in 0..(Len(q.path) - 1) :
                    PathText(SubSeq(q.path, 1, m)) \notin collapsedPaths}}

(***************************************************************************)
(* The page followed: any sequence of its events.  pc names the handler    *)
(* whose result the page shows, "idle" after any other event.              *)
(***************************************************************************)
MaxCollapsed == 1   \* paths folded at once
MaxFoldDepth == 1   \* steps below the root of the deepest node folded
MaxWrites == 1      \* clipboard writes not settled at once

\* A text whose object has one key twice.
RepeatedKeyText ==
  <<"{", "\"", "a", "\"", ":", "1", ",", "\"", "a", "\"", ":", "[", "1", ",", "2", "]", "}">>

PageTexts ==
  {DEFAULT_INPUT, RepeatedKeyText, <<"{">>,
   Stringify(JArr(<<JArr(<<JNum(2), JNum(3), JNum(4)>>),
                    JObj(<<Member("a", JArr(<<JNum(2), JNum(4)>>))>>)>>))}

\* A run of digits beyond every finite double.
HugeLimitText == [i \in 1..(MaxFiniteDigits + 1) |-> "9"]

PageLimits == {<<"1">>, <<"2">>, <<>>, <<"-", "1">>, HugeLimitText}

Init ==
  /\ InitHome
  /\ pc = "idle"
  /\ acc = JNull /\ itemSchema = JNull /\ mergedOut = JSUndefined /\ folds = 0

\* onChange of the input area: setInput(event.target.value)
SetInput ==
  /\ \E text \in PageTexts : input' = text
  /\ pc' = "idle"
  /\ UNCHANGED <<arrayLimit, output, outputValue, error, copyLabel, collapsedPaths,
                 outputMode, writes, merging>>

\* onChange of the limit field: setArrayLimit(event.target.value)
SetArrayLimit ==
  /\ \E limit \in PageLimits : arrayLimit' = limit
  /\ pc' = "idle"
  /\ UNCHANGED <<input, output, outputValue, error, copyLabel, collapsedPaths,
                 outputMode, writes, merging>>

\* onClick of the Trim button
ClickTrim ==
  /\ handleTrim
  /\ pc' = "trimmed"
  /\ UNCHANGED <<writes, merging>>

\* onClick of the Generate schema button
ClickGenerateSchema ==
  /\ handleGenerateSchema
  /\ pc' = "generated"
  /\ UNCHANGED <<writes, merging>>

\* onClick of the Format button
ClickFormat ==
  /\ handleFormatInput
  /\ pc' = "idle"
  /\ UNCHANGED <<writes, merging>>

\* onClick of the Reset button: setInput(DEFAULT_INPUT)
ClickReset ==
  /\ input' = DEFAULT_INPUT
  /\ pc' = "idle"
  /\ UNCHANGED <<arrayLimit, output, outputValue, error, copyLabel, collapsedPaths,
                 outputMode, writes, merging>>

\* onClick of the Copy button, handleCopyOutput up to its await: nothing
\* with no output, else a clipboard write is started.
ClickCopy ==
  /\ writes < MaxWrites
  /\ writes' = IF output = <<>> THEN writes ELSE writes + 1
  /\ pc' = "idle"
  /\ UNCHANGED <<home, merging>>

\* handleCopyOutput after the await: the write was done.  The timeout set
\* here is TimerFires.
CopyWritten ==
  /\ writes > 0
  /\ writes' = writes - 1
  /\ copyLabel' = "Copied"
  /\ pc' = "idle"
  /\ UNCHANGED <<input, arrayLimit, output, outputValue, error, collapsedPaths,
                 outputMode, merging>>

\* handleCopyOutput's catch: the write was refused.
CopyRefused ==
  /\ writes > 0
  /\ writes' = writes - 1
  /\ error' = Message("Copy error: ", "NotAllowedError")
  /\ pc' = "idle"
  /\ UNCHANGED <<input, arrayLimit, output, outputValue, copyLabel, collapsedPaths,
                 outputMode, merging>>

\* window.setTimeout(() => setCopyLabel("Copy"), 1500): a timeout is
\* pending whenever the label is "Copied"; one that fires later changes
\* nothing.
TimerFires ==
  /\ copyLabel = "Copied"
  /\ copyLabel' = "Copy"
  /\ pc' = "idle"
  /\ UNCHANGED <<input, arrayLimit, output, outputValue, error, collapsedPaths,
                 outputMode, writes, merging>>

\* Steps of a path below the root.
Depth(path) == Cardinality({i \in 1..Len(path) : path[i] \in {"[", "."}})

\* onClick of a toggle button of the tree view
ClickToggle ==
  /\ \E path \in TogglePaths :
       /\ \/ path \in collapsedPaths
          \/ Cardinality(collapsedPaths) < MaxCollapsed /\ Depth(path) <= MaxFoldDepth
       /\ toggleCollapsed(path)
  /\ pc' = "idle"
  /\ UNCHANGED <<writes, merging>>

Next ==
  \/ SetInput \/ SetArrayLimit \/ ClickTrim \/ ClickGenerateSchema \/ ClickFormat
  \/ ClickReset \/ ClickCopy \/ CopyWritten \/ CopyRefused \/ TimerFires \/ ClickToggle

Spec == Init /\ [][Next]_vars

(***************************************************************************)
(* Where the handlers have left a result.                                  *)
(***************************************************************************)
\* handleTrim has run and has shown the trimmed value of the input.
Trimmed == pc \in {"trimmed", "retrimmed"} /\ error = JNull

\* The limit handleTrim handed to trimStructure.
Limit == NumberOf(parsedLimit)

\* handleGenerateSchema has run and has shown the schema of the input.
Generated == pc = "generated" /\ error = JNull

(***************************************************************************)
(* C1  Every array of trimStructure(v, limit), at every depth, has length  *)
(* min(limit, length of the original array at the same path), and its      *)
(* elements are the original's first elements in order; with limit 0       *)
(* every array of the result is empty.                                     *)
(***************************************************************************)
TrimLengthBound ==
  Trimmed =>
    \A pn \in Nodes(outputValue) :
      IsArray(pn.node) =>
        LET original == At(parsed, pn.path)
        IN /\ Kind(original) = "array"
           /\ Len(pn.node.items) = Min(Limit, Len(original.items))
           /\ \A i \in 1..Len(pn.node.items) :
                SameHead(pn.node.items[i], original.items[i])
           /\ Limit = 0 => pn.node.items = <<>>

\* A nested array was cut down to a positive limit.
TrimLengthBoundWitness ==
  /\ pc = "trimmed" /\ error = JNull
  /\ Limit > 0
  /\ \E pn \in Nodes(outputValue) :
       /\ IsArray(pn.node)
       /\ Len(pn.path) > 0
       /\ Len(pn.node.items) = Limit
       /\ Len(At(parsed, pn.path).items) > Limit

(***************************************************************************)
(* C2  trimStructure keeps, for every retained node, its kind, its keys in *)
(* their order and its scalar value; with limit >= the longest array of v  *)
(* the result equals v.                                                    *)
(***************************************************************************)
TrimStructurePreserved ==
  Trimmed =>
    /\ \A pn \in Nodes(outputValue) :
         LET original == At(parsed, pn.path)
         IN /\ Kind(original) = pn.node.k
            /\ IsObject(pn.node) => Keys(pn.node.entries) = Keys(original.entries)
            /\ IsScalar(pn.node) => pn.node = original
    /\ Limit >= MaxArrayLength(parsed) => outputValue = parsed

\* An array was cut and an object with two keys inside an array was kept.
TrimStructurePreservedWitness ==
  /\ pc = "trimmed" /\ error = JNull
  /\ outputValue # parsed
  /\ \E pn \in Nodes(outputValue) :
       /\ IsObject(pn.node)
       /\ Len(pn.path) > 0
       /\ Len(pn.node.entries) = 2

(***************************************************************************)
(* C3  Trimming is idempotent: trimming the result again with the same     *)
(* limit returns it unchanged (the text shown is read back and trimmed).   *)
(***************************************************************************)
TrimIdempotent ==
  (pc = "retrimmed" /\ error = JNull) => outputValue = parsed

\* The second call ran on a result whose nested arrays are full to the limit.
TrimIdempotentWitness ==
  /\ pc = "retrimmed" /\ error = JNull
  /\ Limit > 0
  /\ \E pn \in Nodes(parsed) :
       /\ IsArray(pn.node)
       /\ Len(pn.path) > 0
       /\ Len(pn.node.items) = Limit

(***************************************************************************)
(* Reading schemas.                                                        *)
(***************************************************************************)
\* The type tags of a schema, as a set.
TagSet(schema) == IF IsSchemaObject(schema) THEN Range(schema.type.tags) ELSE {}

\* Every schema node of a schema: itself, its items, its properties' values.
RECURSIVE SchemaNodes(_)
SchemaNodes(schema) ==
  {schema}
    \cup (IF schema.items.has THEN SchemaNodes(schema.items.v) ELSE {})
    \cup (IF schema.properties.has
            THEN UNION {SchemaNodes(schema.properties.v[i].val) :
                          i \in 1..Len(schema.properties.v)}
            ELSE {})

\* Equality of two schemas with type tags, property keys and required names
\* read as sets.
RECURSIVE SameUpToOrder(_, _)
SameUpToOrder(a, b) ==
  /\ TagSet(a) = TagSet(b)
  /\ Range(a.required.names) = Range(b.required.names)
  /\ a.properties.has = b.properties.has
  /\ a.properties.has =>
       /\ KeySet(a.properties.v) = KeySet(b.properties.v)
       /\ \A key \in KeySet(a.properties.v) :
            SameUpToOrder(Lookup(a.properties.v, key), Lookup(b.properties.v, key))
  /\ a.items.has = b.items.has
  /\ a.items.has => SameUpToOrder(a.items.v, b.items.v)

\* The arrangements of a sequence.
Arrangements(seq) ==
  {[i \in 1..Len(seq) |-> seq[f[i]]] : f \in Permutations(1..Len(seq))}

IsNonEmptyArray(value) == IsArray(value) /\ Len(value.items) > 0

(***************************************************************************)
(* C4  The items schema inferred for a non-empty array is the same, with   *)
(* type tags, property keys and required names read as sets, for every     *)
(* arrangement of the array's elements.                                    *)
(***************************************************************************)
ItemsOrderIndependent ==
  (Generated /\ IsNonEmptyArray(parsed)) =>
    \A arranged \in Arrangements(parsed.items) :
      SameUpToOrder(inferSchema(JArr(arranged)).items.v, outputValue.items.v)

(***************************************************************************)
(* C5  In a generated schema every node whose type contains "object" has   *)
(* properties, and every node whose type contains "array" has items.       *)
(***************************************************************************)
ObjectHasPropertiesArrayHasItems ==
  Generated =>
    \A node \in SchemaNodes(outputValue) :
      /\ "object" \in TagSet(node) => node.properties.has
      /\ "array" \in TagSet(node) => node.items.has

(***************************************************************************)
(* C6  null and {} are two-sided identities of mergeSchemas: merging a     *)
(* schema with either, on either side, returns an equal schema; so the     *)
(* items of an empty array's schema merged with the items of a non-empty   *)
(* array's schema are the latter.                                          *)
(***************************************************************************)
IsIdentityArgument(x) == x = JNull \/ x = EmptySchema

EmptyIsMergeIdentity ==
  pc = "merged" =>
    /\ (IsSchemaObject(acc) /\ IsIdentityArgument(itemSchema)) => mergedOut = acc
    /\ (IsIdentityArgument(acc) /\ IsSchemaObject(itemSchema)) => mergedOut = itemSchema
    /\ (/\ IsSchemaObject(acc) /\ IsSchemaObject(itemSchema)
        /\ acc.items = Present(EmptySchema) /\ itemSchema.items.has
        /\ TagSet(acc) = {"array"} /\ TagSet(itemSchema) = {"array"})
         => mergedOut.items = itemSchema.items

(***************************************************************************)
(* C7  For a non-empty array of objects the items schema has properties    *)
(* for exactly the keys of all elements together, and required is the      *)
(* list of the keys found in every element, in the first element's order,  *)
(* left out when no key is in every element.                               *)
(***************************************************************************)
AllObjects(value) ==
  IsNonEmptyArray(value) /\ \A i \in 1..Len(value.items) : IsObject(value.items[i])

KeysOfAll(value) == UNION {KeySet(value.items[i].entries) : i \in 1..Len(value.items)}

KeysInEvery(value) ==
  {key \in KeysOfAll(value) :
     \A i \in 1..Len(value.items) : key \in KeySet(value.items[i].entries)}

ObjectItemsUnionAndRequired ==
  (Generated /\ AllObjects(parsed)) =>
    LET items == outputValue.items.v
        common == KeysInEvery(parsed)
    IN /\ items.properties.has
       /\ KeySet(items.properties.v) = KeysOfAll(parsed)
       /\ common # {} =>
            items.required =
              RequiredList(SelectSeq(Keys(parsed.items[1].entries),
                                     LAMBDA key : key \in common))
       /\ common = {} => items.required = RequiredAbsent

(***************************************************************************)
(* C8  The type of mergeSchemas(a, b) is the duplicate-free union of a's   *)
(* and b's type tags: one tag stored alone, several stored as a list, and  *)
(* no type when neither has one.                                           *)
(***************************************************************************)
MergeTypeIsUnion ==
  pc = "merged" =>
    LET union == TagSet(acc) \cup TagSet(itemSchema)
        type == mergedOut.type
    IN /\ Range(type.tags) = union
       /\ Len(type.tags) = Cardinality(union)
       /\ Cardinality(union) = 0 => type.form = "absent"
       /\ Cardinality(union) = 1 => type.form = "scalar"
       /\ Cardinality(union) > 1 => type.form = "list"

\* A list of tags met a tag it already holds and one it does not.
MergeTypeIsUnionWitness ==
  /\ pc = "merged"
  /\ IsSchemaObject(acc) /\ IsSchemaObject(itemSchema)
  /\ acc.type = TypeList(<<"integer", "number">>)
  /\ \/ itemSchema.type = TypeOne("number")
     \/ itemSchema.type = TypeOne("string")
  /\ mergedOut.type.form = "list"

(***************************************************************************)
(* C9  In the schema generateSchema hands out, as the object given to the  *)
(* tree view and as the serialized text, a node has a required property    *)
(* only when its type includes "object" and the list is not empty; the     *)
(* schema of an object without keys has no required property at all.       *)
(***************************************************************************)
\* The tokens hold the key "required" directly followed by an empty array.
RequiredWrittenEmpty(tokens) ==
  \E i \in 1..Len(tokens) :
    /\ tokens[i] = "required"
    /\ i + 4 <= Len(tokens)
    /\ tokens[i + 3] = "[" /\ tokens[i + 4] = "]"

RequiredOnlyWhenNonEmpty ==
  Generated =>
    /\ \A node \in SchemaNodes(outputValue) :
         node.required.form # "absent" =>
           /\ "object" \in TagSet(node)
           /\ node.required.form = "list"
           /\ Len(node.required.names) > 0
    /\ ~RequiredWrittenEmpty(output)

(***************************************************************************)
(* C10  inferSchema gives a scalar exactly one type tag and nothing else:  *)
(* null, boolean, string, integer for a number without fractional part,    *)
(* number for any other number; the choice is made per value, so the       *)
(* items of an array of scalars carry the tags of each of its elements.    *)
(***************************************************************************)
\* A number kept as twice its value has a fractional part when that is odd.
ScalarTag(value) ==
  IF value.k = "number"
    THEN (IF (value.half \div 2) * 2 = value.half THEN "integer" ELSE "number")
    ELSE value.k

AllScalars(value) ==
  IsNonEmptyArray(value) /\ \A i \in 1..Len(value.items) : IsScalar(value.items[i])

ScalarTypeTags ==
  Generated =>
    /\ IsScalar(parsed) =>
         outputValue =
           [EmptySchema EXCEPT !.type = TypeOne(ScalarTag(parsed)),
                               !.dollarSchema = Present(DraftId)]
    /\ AllScalars(parsed) =>
         LET items == outputValue.items.v
             tags == {ScalarTag(parsed.items[i]) : i \in 1..Len(parsed.items)}
         IN /\ Range(items.type.tags) = tags
            /\ Len(items.type.tags) = Cardinality(tags)
            /\ ~items.properties.has /\ ~items.items.has
            /\ items.required = RequiredAbsent

\* The array [1, 1.5]: its items are integer and number.
ScalarTypeTagsWitness ==
  /\ Generated
  /\ parsed = JArr(<<JNum(2), JNum(3)>>)
  /\ outputValue.items.v.type = TypeList(<<"integer", "number">>)

(***************************************************************************)
(* C11  handleTrim hands trimStructure a limit that is a whole number not  *)
(* below 0, whatever the text of the limit field is: a text that is no     *)
(* number makes handleTrim set an error and clear output and outputValue   *)
(* without a call, and a negative number is passed as 0.  (The argument    *)
(* of the call at line 162 is parsedLimit, and the call is reached when    *)
(* parsedLimit is not null and JSON.parse returns.)                        *)
(***************************************************************************)
IsWholeNotBelowZero(value) ==
  /\ ~IsInfinite(value)
  /\ IsInteger(value)
  /\ NumberOf(value) >= 0

LimitPassedIsWholeNumber ==
  pc = "trimmed" =>
    /\ parsedLimit = JNull =>
         /\ error = Message("Provide a valid number of items for arrays.", "")
         /\ output = <<>>
         /\ outputValue = JNull
    /\ (parsedLimit # JNull /\ JSONparse(input).ok) => IsWholeNotBelowZero(parsedLimit)
    /\ (~parseInt(arrayLimit).nan /\ parseInt(arrayLimit).negative) => parsedLimit = JNum(0)

(***************************************************************************)
(* C12  A step of handleTrim or handleGenerateSchema leaves the input text *)
(* as it was.  When the text does not parse, error is the parser's message *)
(* behind "JSON error: ", output is empty and outputValue is null; when it *)
(* parses, error is null, output is the serialization of the new           *)
(* outputValue and collapsedPaths is empty.  As stated, for every step of  *)
(* either handler; as amended, for the steps of handleTrim whose limit     *)
(* text is a number and all steps of handleGenerateSchema.                 *)
(***************************************************************************)
ParseOutcomeReported ==
  /\ input' = input
  /\ IF JSONparse(input).ok
       THEN /\ error' = JNull
            /\ output' = Stringify(Rendered')
            /\ collapsedPaths' = {}
       ELSE /\ error' # JNull
            /\ error'.prefix = "JSON error: "
            /\ error'.text = JSONparse(input).message
            /\ output' = <<>>
            /\ outputValue' = JNull

\* As stated.  (The steps that leave pc at "trimmed" are those of
\* handleTrim, the steps that leave it at "generated" those of
\* handleGenerateSchema.)
HandlersReportParseOutcome ==
  [][pc' \in {"trimmed", "generated"} => ParseOutcomeReported]_vars

\* As amended.
HandlersReportParseOutcomeGivenLimit ==
  [][((pc' = "trimmed" /\ parsedLimit # JNull) \/ pc' = "generated")
       => ParseOutcomeReported]_vars

\* handleTrim has failed on a text that does not parse while the schema of
\* an earlier run was shown: nothing of it is left but the mode.
HandlersReportParseOutcomeWitness ==
  /\ pc = "trimmed"
  /\ parsedLimit # JNull
  /\ ~JSONparse(input).ok
  /\ error # JNull
  /\ outputMode = "schema"
  /\ outputValue = JNull

(***************************************************************************)
(* C13  For two schemas a and b, mergeSchemas(a, b) has properties exactly *)
(* when "object" is among a's type tags and among b's, and items exactly   *)
(* when "array" is among both.  When both are objects the merged           *)
(* properties have the keys of both sides together; a key of one side      *)
(* only keeps that side's schema as it is, a key of both sides gets the    *)
(* merge of the two schemas; and so for every key, whatever its name.      *)
(***************************************************************************)
\* The value an own key holds.
OwnValue(entries, key) == entries[IndexOfKey(entries, key)].val

MergeKeepsPropertiesOfBothSides ==
  (pc = "merged" /\ IsSchemaObject(acc) /\ IsSchemaObject(itemSchema)) =>
    LET bothObjects == "object" \in TagSet(acc) /\ "object" \in TagSet(itemSchema)
        bothArrays == "array" \in TagSet(acc) /\ "array" \in TagSet(itemSchema)
        leftProps == PropertiesOf(acc)
        rightProps == PropertiesOf(itemSchema)
    IN /\ mergedOut.properties.has <=> bothObjects
       /\ mergedOut.items.has <=> bothArrays
       /\ bothObjects =>
            /\ KeySet(mergedOut.properties.v) = KeySet(leftProps) \cup KeySet(rightProps)
            /\ \A key \in KeySet(mergedOut.properties.v) :
                 OwnValue(mergedOut.properties.v, key) =
                   IF key \notin KeySet(rightProps) THEN OwnValue(leftProps, key)
                   ELSE IF key \notin KeySet(leftProps) THEN OwnValue(rightProps, key)
                   ELSE mergeSchemas(OwnValue(leftProps, key), OwnValue(rightProps, key))

(***************************************************************************)
(* C14  mergeSchemas(a, b) and mergeSchemas(b, a) are the same up to       *)
(* order: the same set of type tags, the same set of required names,       *)
(* properties and items on both or on neither, the same property keys,     *)
(* and nested schemas that are the same in this sense.                     *)
(***************************************************************************)
MergeCommutesUpToOrder ==
  pc = "merged" => SameUpToOrder(mergedOut, mergeSchemas(itemSchema, acc))

\* Two object schemas with different keys in different orders were merged,
\* and the two results list their properties in different orders.
MergeCommutesUpToOrderWitness ==
  /\ pc = "merged"
  /\ IsSchemaObject(acc) /\ IsSchemaObject(itemSchema)
  /\ mergedOut.properties.has
  /\ Len(mergedOut.properties.v) >= 2
  /\ mergedOut # mergeSchemas(itemSchema, acc)

(***************************************************************************)
(* C15  In every node of a generated schema the names listed in required   *)
(* are keys of the node's own properties and none is listed twice; and     *)
(* the names required by the items schema of an array are keys of every    *)
(* object among the array's elements, other elements or not.               *)
(***************************************************************************)
ObjectElements(value) ==
  {value.items[i] : i \in {j \in 1..Len(value.items) : IsObject(value.items[j])}}

RequiredAreOwnKeys ==
  Generated =>
    /\ \A node \in SchemaNodes(outputValue) :
         node.required.form = "list" =>
           /\ node.properties.has
           /\ Range(node.required.names) \subseteq KeySet(node.properties.v)
           /\ Len(node.required.names) = Cardinality(Range(node.required.names))
    /\ IsArray(parsed) =>
         \A name \in Range(outputValue.items.v.required.names) :
           \A element \in ObjectElements(parsed) : name \in KeySet(element.entries)

\* Three objects share one key and differ in another, and the shared key
\* is the one required.
RequiredAreOwnKeysWitness ==
  /\ Generated
  /\ IsArray(parsed)
  /\ Len(parsed.items) = 3
  /\ Cardinality(ObjectElements(parsed)) >= 2
  /\ outputValue.items.v.required.form = "list"
  /\ \E element \in ObjectElements(parsed) :
       KeySet(element.entries) # Range(outputValue.items.v.required.names)

====
